---- MODULE Spec2Model ----
(***************************************************************************)
(* Model of COVID_example.py: field coercion (str2int), record             *)
(* construction (Region), file parsing (Parse, ParseFiles), ranking        *)
(* (TopRegion), averaging (ComputeAverage) and the top-5 timeline          *)
(* (TimelineAll).                                                          *)
(*                                                                         *)
(* Python values are modelled with their dynamic type: an int is           *)
(* [type |-> "int", val |-> v], the string 'nan' that str2int returns is   *)
(* [type |-> "str", text |-> <<"n", "a", "n">>], a list is                 *)
(* [type |-> "list", items |-> ...]. Text is a sequence of one-character   *)
(* strings.                                                                *)
(***************************************************************************)
EXTENDS Integers, Sequences, FiniteSets, TLC

VARIABLES
    pc,        \* position of the running call
    x,         \* str2int: the argument
    ret,       \* value returned by the finished top-level call (None before)
    exc,       \* exception that left the finished top-level call ("none" if none)
    files,     \* ParseFiles: the text of the files named by `names`, in order
    fileIdx,   \* ParseFiles: index of the file the loop over `names` is at
    Rs,        \* ParseFiles: the list being built
    fh,        \* Parse: the file object (file index, next line to read)
    Ls,        \* Parse: the list being built
    parseRet,  \* the value the last Parse call returned
    opened,    \* indices of the files whose OS handle is open
    pinned,    \* indices of the files whose file object a traceback still references
    As,        \* the list of Region objects handed to the analysis functions
    n,         \* TopRegion: the argument n
    attr,      \* TimelinePlot, TimelineAll: the argument attr
    plotted    \* the series passed to plt.plot, in call order

coerceVars == <<x>>
parseVars == <<files, fileIdx, Rs, fh, Ls, parseRet, opened, pinned>>
anaVars == <<n, attr, plotted>>
vars == <<pc, x, ret, exc, files, fileIdx, Rs, fh, Ls, parseRet, opened, pinned, As, n, attr, plotted>>

----------------------------------------------------------------------------
(* Bounds *)
MaxTokLen == 3
MaxFiles == 2
MaxLines == 3
MaxObs == 4
MaxN == 5
MaxAvgLen == 5
MaxOddLen == 3
MaxRegions == 6

\* line 160: the regions TimelineAll keeps
TopCount == 5

----------------------------------------------------------------------------
(* Python values *)
IntV(v) == [type |-> "int", val |-> v]
NaN == [type |-> "str", text |-> <<"n", "a", "n">>]
IsInt(v) == v.type = "int"

None == [type |-> "NoneType"]
ListV(l) == [type |-> "list", items |-> l]
\* a dict, as its items in insertion order
DictV(d) == [type |-> "dict", entries |-> d]
\* a float with at most two decimals, as its number of hundredths
FloatV(h) == [type |-> "float", hundredths |-> h]

----------------------------------------------------------------------------
(* Text *)
Digits == {"0", "1", "2", "3", "4", "5", "6", "7", "8", "9"}
Space == {" ", "\n"}

DigitVal(c) ==
    CASE c = "0" -> 0 [] c = "1" -> 1 [] c = "2" -> 2 [] c = "3" -> 3
      [] c = "4" -> 4 [] c = "5" -> 5 [] c = "6" -> 6 [] c = "7" -> 7
      [] c = "8" -> 8 [] c = "9" -> 9

RECURSIVE LStrip(_)
LStrip(s) ==
    IF s # <<>> /\ Head(s) \in Space THEN LStrip(Tail(s)) ELSE s

RECURSIVE RStrip(_)
RStrip(s) ==
    IF s # <<>> /\ s[Len(s)] \in Space THEN RStrip(SubSeq(s, 1, Len(s) - 1)) ELSE s

\* digits with single underscores between them; acc is the value so far,
\* prev is the previous character ("" at the start)
RECURSIVE ScanDigits_Prefix(_, _, _)
ScanDigits_Prefix(s, acc, prev) ==
    IF s = <<>> \/ Head(s) \notin Digits
    THEN IF prev \in Digits THEN [ok |-> TRUE, val |-> acc] ELSE [ok |-> FALSE, val |-> 0]
    ELSE ScanDigits_Prefix(Tail(s), 10 * acc + DigitVal(Head(s)), Head(s))

RECURSIVE ScanDigits(_, _, _)
ScanDigits(s, acc, prev) ==
    IF s = <<>>
    THEN IF prev \in Digits THEN [ok |-> TRUE, val |-> acc] ELSE [ok |-> FALSE, val |-> 0]
    ELSE IF Head(s) \in Digits
         THEN ScanDigits(Tail(s), 10 * acc + DigitVal(Head(s)), Head(s))
         ELSE IF Head(s) = "_" /\ prev \in Digits
              THEN ScanDigits(Tail(s), acc, "_")
              ELSE [ok |-> FALSE, val |-> 0]

\* int(x) for a str x, base 10: the value, or ValueError
PyInt(s) ==
    LET t == RStrip(LStrip(s))
        neg == t # <<>> /\ Head(t) = "-"
        body == IF t # <<>> /\ Head(t) \in {"-", "+"} THEN Tail(t) ELSE t
        r == ScanDigits(body, 0, "")
    IN  IF r.ok
        THEN [exc |-> "none", val |-> IntV(IF neg THEN 0 - r.val ELSE r.val)]
        ELSE [exc |-> "ValueError", val |-> None]

\* a call result
Return(v) == [exc |-> "none", val |-> v]
Raise(e) == [exc |-> e, val |-> None]

str2int_OnlyTypeError(s) ==
    LET r == PyInt(s)
    IN  IF r.exc = "TypeError" THEN Return(NaN) ELSE r

str2int(s) ==
    LET r == PyInt(s)
    IN  IF r.exc = "none" THEN Return(r.val) ELSE Return(NaN)

----------------------------------------------------------------------------
(* Field coercion on its own *)
Alphabet == {"0", "1", "9", "-", "+", " ", "_", "x"}

RECURSIVE Texts(_, _)
Texts(A, k) ==
    IF k = 0 THEN {<<>>}
    ELSE LET S == Texts(A, k - 1)
         IN  S \cup {Append(s, c) : s \in {t \in S : Len(t) = k - 1}, c \in A}

RECURSIVE SeqsUpTo(_, _)
SeqsUpTo(S, k) ==
    IF k = 0 THEN {<<>>}
    ELSE LET R == SeqsUpTo(S, k - 1)
         IN  R \cup {Append(q, e) : q \in {t \in R : Len(t) = k - 1}, e \in S}

NoHandle == [file |-> 0, pos |-> 0]

Idle ==
    /\ ret = None
    /\ exc = "none"
    /\ files = <<>>
    /\ fileIdx = 0
    /\ Rs = <<>>
    /\ fh = NoHandle
    /\ Ls = <<>>
    /\ parseRet = <<>>
    /\ opened = {}
    /\ pinned = {}
    /\ n = 0
    /\ attr = ""
    /\ plotted = <<>>

InitCoerce ==
    /\ pc = "str2int"
    /\ x \in Texts(Alphabet, MaxTokLen)
    /\ As = <<>>
    /\ Idle

Str2IntCall ==
    /\ pc = "str2int"
    /\ LET r == str2int(x)
       IN  /\ ret' = r.val
           /\ exc' = r.exc
    /\ pc' = "str2int_done"
    /\ UNCHANGED <<coerceVars, parseVars, anaVars, As>>

NextCoerce == Str2IntCall

SpecCoerce == InitCoerce /\ [][NextCoerce]_vars

----------------------------------------------------------------------------
(* Rows and records *)

\* l.replace('\n', '')
RECURSIVE RemoveNewlines(_)
RemoveNewlines(s) ==
    IF s = <<>> THEN <<>>
    ELSE IF Head(s) = "\n" THEN RemoveNewlines(Tail(s))
         ELSE <<Head(s)>> \o RemoveNewlines(Tail(s))

\* s.split(','): the fields between the commas; '' gives ['']
RECURSIVE SplitFrom(_, _, _)
SplitFrom(s, cur, acc) ==
    IF s = <<>> THEN Append(acc, cur)
    ELSE IF Head(s) = "," THEN SplitFrom(Tail(s), <<>>, Append(acc, cur))
         ELSE SplitFrom(Tail(s), Append(cur, Head(s)), acc)

Split(s) == SplitFrom(s, <<>>, <<>>)

\* the assignments of Region.__init__, in order: attribute, column, coerced?
RegionFields ==
    << [attr |-> "Date", col |-> 0, num |-> FALSE],
       [attr |-> "Name", col |-> 3, num |-> FALSE],
       [attr |-> "ICU", col |-> 7, num |-> TRUE],
       [attr |-> "NewCases", col |-> 12, num |-> TRUE],
       [attr |-> "Deaths", col |-> 14, num |-> TRUE],
       [attr |-> "TotalCases", col |-> 10, num |-> TRUE],
       [attr |-> "Tests", col |-> 16, num |-> TRUE] >>

\* row[c] of a Python list: IndexError past the end
Index_Padded(row, c) ==
    IF c < Len(row) THEN Return(row[c + 1]) ELSE Return(<<>>)

Index(row, c) ==
    IF c < Len(row) THEN Return(row[c + 1]) ELSE Raise("IndexError")

RECURSIVE RegionInit(_, _, _)
RegionInit(row, k, self) ==
    IF k > Len(RegionFields) THEN Return(self)
    ELSE LET f == RegionFields[k]
             cell == Index(row, f.col)
         IN  IF cell.exc # "none" THEN Raise(cell.exc)
             ELSE IF ~f.num
                  THEN RegionInit(row, k + 1, (f.attr :> cell.val) @@ self)
                  ELSE LET v == str2int(cell.val)
                       IN  IF v.exc # "none" THEN Raise(v.exc)
                           ELSE RegionInit(row, k + 1, (f.attr :> v.val) @@ self)

\* Region(row): the new object, or the exception of its constructor
Region(row) == RegionInit(row, 1, <<>>)

----------------------------------------------------------------------------
(* Parse and ParseFiles *)

\* fh = open(filename): positioned at the first line
Open(f) == [file |-> f, pos |-> 1]

\* fh.readline() and the iteration over fh: the next line ('' at the end of
\* the file, which readline returns and which ends the iteration)
AtEnd(h) == h.pos > Len(files[h.file])
NextLine(h) == IF AtEnd(h) THEN <<>> ELSE files[h.file][h.pos]
Advance(h) == IF AtEnd(h) THEN h ELSE [h EXCEPT !.pos = @ + 1]

\* line 49: fh.readline(), its result dropped
ReadHeader_Missing(h) == h
ReadHeader(h) == Advance(h)

\* Rs.extend(L)
Extend_Replace(R, L) == L
Extend(R, L) == R \o L

ParseFilesCall ==
    /\ pc = "ParseFiles"
    /\ Rs' = <<>>
    /\ fileIdx' = 1
    /\ pc' = "ParseFiles_loop"
    /\ UNCHANGED <<x, ret, exc, files, fh, Ls, parseRet, opened, pinned, As, anaVars>>

\* Parse, lines 48-51: open the file, read the header line, Ls = []
ParseOpen ==
    /\ pc = "ParseFiles_loop"
    /\ fileIdx <= Len(files)
    /\ fh' = ReadHeader(Open(fileIdx))
    /\ opened' = opened \cup {fileIdx}
    /\ Ls' = <<>>
    /\ pc' = "Parse_loop"
    /\ UNCHANGED <<x, ret, exc, files, fileIdx, Rs, parseRet, pinned, As, anaVars>>

\* Parse, lines 52-54: one iteration of the loop over the lines. An exception
\* of Region leaves Parse and ParseFiles; the traceback keeps the frame of
\* Parse, and with it fh, referenced.
ParseLine ==
    /\ pc = "Parse_loop"
    /\ ~AtEnd(fh)
    /\ LET row == Split(RemoveNewlines(NextLine(fh)))
           r == Region(row)
       IN  IF r.exc = "none"
           THEN /\ Ls' = Append(Ls, r.val)
                /\ fh' = Advance(fh)
                /\ UNCHANGED <<pc, exc, pinned>>
           ELSE /\ pc' = "ParseFiles_raised"
                /\ exc' = r.exc
                /\ pinned' = pinned \cup {fh.file}
                /\ UNCHANGED <<Ls, fh>>
    /\ UNCHANGED <<x, ret, files, fileIdx, Rs, parseRet, opened, As, anaVars>>

\* Parse, line 56: return Ls; the frame of Parse, and with it fh, is dropped
ParseReturn ==
    /\ pc = "Parse_loop"
    /\ AtEnd(fh)
    /\ parseRet' = Ls
    /\ fh' = NoHandle
    /\ Ls' = <<>>
    /\ pc' = "ParseFiles_extend"
    /\ UNCHANGED <<x, ret, exc, files, fileIdx, Rs, opened, pinned, As, anaVars>>

\* ParseFiles, line 71: Rs.extend(...) and the next file
ParseFilesExtend ==
    /\ pc = "ParseFiles_extend"
    /\ Rs' = Extend(Rs, parseRet)
    /\ fileIdx' = fileIdx + 1
    /\ pc' = "ParseFiles_loop"
    /\ UNCHANGED <<x, ret, exc, files, fh, Ls, parseRet, opened, pinned, As, anaVars>>

\* ParseFiles, line 72, and As = ParseFiles(Fs) of the driver
ParseFilesReturn ==
    /\ pc = "ParseFiles_loop"
    /\ fileIdx > Len(files)
    /\ ret' = ListV(Rs)
    /\ As' = Rs
    /\ pc' = "main"
    /\ UNCHANGED <<x, exc, files, fileIdx, Rs, fh, Ls, parseRet, opened, pinned, anaVars>>

\* The runtime closes the handle of a file object nothing references any
\* more; Parse itself never closes fh. When this happens is up to the
\* runtime (at once under reference counting, later or never otherwise).
Finalize ==
    /\ \E f \in opened :
        /\ f # fh.file
        /\ f \notin pinned
        /\ opened' = opened \ {f}
    /\ UNCHANGED <<pc, x, ret, exc, files, fileIdx, Rs, fh, Ls, parseRet, pinned, As, anaVars>>

----------------------------------------------------------------------------
(* Ranking *)

\* float(o.Deaths) / o.TotalCases. float('nan') is the float NaN, so the
\* sentinel in Deaths gives a NaN ratio; a str TotalCases is a TypeError and
\* a zero TotalCases a ZeroDivisionError. The quotient is kept as the exact
\* fraction num/den: the float quotients of two ints below 2^26 are equal
\* exactly when the fractions are, and ordered as the fractions are.
Ratio_ZeroGuarded(o) ==
    IF ~IsInt(o.TotalCases) THEN Raise("TypeError")
    ELSE IF o.TotalCases.val = 0 THEN Return([nan |-> FALSE, num |-> 0, den |-> 1])
    ELSE IF ~IsInt(o.Deaths)
         THEN Return([nan |-> TRUE, num |-> 0, den |-> 1])
         ELSE Return([nan |-> FALSE, num |-> o.Deaths.val, den |-> o.TotalCases.val])

Ratio(o) ==
    IF ~IsInt(o.TotalCases) THEN Raise("TypeError")
    ELSE IF o.TotalCases.val = 0 THEN Raise("ZeroDivisionError")
    ELSE IF ~IsInt(o.Deaths)
         THEN Return([nan |-> TRUE, num |-> 0, den |-> 1])
         ELSE Return([nan |-> FALSE, num |-> o.Deaths.val, den |-> o.TotalCases.val])

Sign(v) == IF v < 0 THEN 0 - 1 ELSE 1

\* a < b on two float quotients; every comparison with NaN is False
FloatLess(a, b) ==
    /\ ~a.nan
    /\ ~b.nan
    /\ a.num * b.den * Sign(a.den) * Sign(b.den) < b.num * a.den * Sign(a.den) * Sign(b.den)

\* Region.__lt__(self, other): "T", "F" or the exception; self's ratio first
RegionLess_Reversed(self, other) ==
    LET a == Ratio(self)
        b == Ratio(other)
    IN  IF a.exc # "none" THEN a.exc
        ELSE IF b.exc # "none" THEN b.exc
        ELSE IF FloatLess(b.val, a.val) THEN "T" ELSE "F"

RegionLess(self, other) ==
    LET a == Ratio(self)
        b == Ratio(other)
    IN  IF a.exc # "none" THEN a.exc
        ELSE IF b.exc # "none" THEN b.exc
        ELSE IF FloatLess(a.val, b.val) THEN "T" ELSE "F"

\* the key of line 101 and 160, lambda x: x[1], compared as floats (hundredths)
KeyLess_Greater(a, b) == IF a.val.hundredths > b.val.hundredths THEN "T" ELSE "F"

KeyLess(a, b) == IF a.val.hundredths < b.val.hundredths THEN "T" ELSE "F"

\* the comparison sorted() makes: Region objects by __lt__, dict items by key
Less(kind, a, b) == IF kind = "Region" THEN RegionLess(a, b) ELSE KeyLess(a, b)

RECURSIVE Reverse(_)
Reverse(q) == IF q = <<>> THEN <<>> ELSE Append(Reverse(Tail(q)), Head(q))

\* list.sort on fewer than 64 elements: the leading run (count_run), then
\* binary insertion of the rest (binarysort). RunEnd gives the last index of
\* the run that a[k-1] belongs to: ascending while a[k] < a[k-1] is "F",
\* strictly descending while it is "T".
RECURSIVE RunEnd(_, _, _, _)
RunEnd(a, k, want, kind) ==
    IF k > Len(a) THEN Return(k - 1)
    ELSE LET c == Less(kind, a[k], a[k - 1])
         IN  IF c \notin {"T", "F"} THEN Raise(c)
             ELSE IF c = want THEN RunEnd(a, k + 1, want, kind)
             ELSE Return(k - 1)

RECURSIVE BinarySearch(_, _, _, _, _)
BinarySearch(a, pivot, l, r, kind) ==
    IF l >= r THEN Return(l)
    ELSE LET p == l + ((r - l) \div 2)
             c == Less(kind, pivot, a[p])
         IN  IF c \notin {"T", "F"} THEN Raise(c)
             ELSE IF c = "T" THEN BinarySearch(a, pivot, l, p, kind)
             ELSE BinarySearch(a, pivot, p + 1, r, kind)

RECURSIVE BinarySort(_, _, _)
BinarySort(a, start, kind) ==
    IF start > Len(a) THEN Return(a)
    ELSE LET pivot == a[start]
             at == BinarySearch(a, pivot, 1, start, kind)
         IN  IF at.exc # "none" THEN Raise(at.exc)
             ELSE BinarySort(SubSeq(a, 1, at.val - 1) \o <<pivot>>
                             \o SubSeq(a, at.val, start - 1)
                             \o SubSeq(a, start + 1, Len(a)),
                             start + 1, kind)

ListSort(a, kind) ==
    IF Len(a) < 2 THEN Return(a)
    ELSE LET first == Less(kind, a[2], a[1])
         IN  IF first \notin {"T", "F"} THEN Raise(first)
             ELSE LET run == RunEnd(a, 3, first, kind)
                  IN  IF run.exc # "none" THEN Raise(run.exc)
                      ELSE BinarySort(
                               IF first = "T"
                               THEN Reverse(SubSeq(a, 1, run.val)) \o SubSeq(a, run.val + 1, Len(a))
                               ELSE a,
                               run.val + 1, kind)

\* sorted(L, reverse=True): reverse, sort, reverse (which keeps equal
\* elements in their order in L)
SortedReverse(L, kind) ==
    LET r == ListSort(Reverse(L), kind)
    IN  IF r.exc # "none" THEN Raise(r.exc) ELSE Return(Reverse(r.val))

\* L[:k]
Prefix(L, k) ==
    IF k >= 0 THEN SubSeq(L, 1, IF k < Len(L) THEN k ELSE Len(L))
    ELSE SubSeq(L, 1, Len(L) + k)

TopRegion(L, k) ==
    LET r == SortedReverse(L, "Region")
    IN  IF r.exc # "none" THEN Raise(r.exc) ELSE Return(ListV(Prefix(r.val, k)))

TopRegionCall ==
    /\ pc = "main"
    /\ \E k \in 0..MaxN :
        /\ n' = k
        /\ LET r == TopRegion(As, k)
           IN  /\ ret' = r.val
               /\ exc' = r.exc
    /\ pc' = "TopRegion_done"
    /\ UNCHANGED <<x, parseVars, As, attr, plotted>>

\* a Region object with the given attributes
Obs(date, name, icu, new, deaths, total, tests) ==
    [Date |-> date, Name |-> name, ICU |-> icu, NewCases |-> new,
     Deaths |-> deaths, TotalCases |-> total, Tests |-> tests]

RankObs(deaths, total) == Obs(<<"6", "1">>, <<"A">>, IntV(1), IntV(1), deaths, total, IntV(9))

RankInputs ==
    { RankObs(IntV(0), IntV(1)), RankObs(IntV(1), IntV(2)), RankObs(IntV(2), IntV(4)),
      RankObs(IntV(1), IntV(1)), RankObs(NaN, IntV(1)), RankObs(IntV(1), IntV(0)),
      RankObs(IntV(1), NaN), RankObs(IntV(0 - 1), IntV(2)) }

InitRank ==
    /\ pc = "main"
    /\ As \in SeqsUpTo(RankInputs, MaxObs)
    /\ x = <<>>
    /\ Idle

NextRank == TopRegionCall

SpecRank == InitRank /\ [][NextRank]_vars

----------------------------------------------------------------------------
(* Averaging *)

\* D.get(key, default)
Get(D, key, default) ==
    IF \E k \in 1..Len(D) : D[k].key = key
    THEN D[CHOOSE k \in 1..Len(D) : D[k].key = key].val
    ELSE default

\* D[key] = v: in place for a key of D, at the end for a new key
Put(D, key, v) ==
    IF \E k \in 1..Len(D) : D[k].key = key
    THEN [k \in 1..Len(D) |-> IF D[k].key = key THEN [key |-> key, val |-> v] ELSE D[k]]
    ELSE Append(D, [key |-> key, val |-> v])

\* a + b with a an int: an int for an int b, TypeError for the str sentinel
Add(a, b) ==
    IF IsInt(a) /\ IsInt(b) THEN Return(IntV(a.val + b.val)) ELSE Raise("TypeError")

\* round(num / den, 2) for ints num and den > 0, in hundredths: the nearest
\* hundredth, an exact tie going to the even one. (A quotient that is a tie in
\* decimal but not a binary fraction goes where its float lies; such quotients
\* need a group of 40 or more observations.)
Round2_Truncate(num, den) == (100 * num) \div den

Round2(num, den) ==
    LET q == (200 * num + den) \div (2 * den)
    IN  IF (200 * num + den) % (2 * den) = 0 /\ q % 2 = 1 THEN q - 1 ELSE q

\* lines 83-85: the loop over Ls
RECURSIVE Accumulate(_, _, _, _)
Accumulate(L, k, D, C) ==
    IF k > Len(L) THEN Return([D |-> D, C |-> C])
    ELSE LET l == L[k]
             sum == Add(Get(D, l.Name, IntV(0)), l.NewCases)
         IN  IF sum.exc # "none" THEN Raise(sum.exc)
             ELSE Accumulate(L, k + 1,
                             Put(D, l.Name, sum.val),
                             Put(C, l.Name, IntV(Get(C, l.Name, IntV(0)).val + 1)))

ComputeAverage(L) ==
    LET acc == Accumulate(L, 1, <<>>, <<>>)
    IN  IF acc.exc # "none" THEN Raise(acc.exc)
        ELSE LET D == acc.val.D
                 C == acc.val.C
             IN  Return(DictV([k \in 1..Len(D) |->
                     [key |-> D[k].key,
                      val |-> FloatV(Round2(D[k].val.val, Get(C, D[k].key, IntV(0)).val))]]))

ComputeAverageCall ==
    /\ pc = "main"
    /\ LET r == ComputeAverage(As)
       IN  /\ ret' = r.val
           /\ exc' = r.exc
    /\ pc' = "ComputeAverage_done"
    /\ UNCHANGED <<x, parseVars, As, anaVars>>

----------------------------------------------------------------------------
(* Timelines *)

\* s[a:b] for 0 <= a <= b
Slice(t, a, b) == SubSeq(t, a + 1, IF b < Len(t) THEN b ELSE Len(t))

str2date(t) == Slice(t, 0, 4) \o <<"-">> \o Slice(t, 5, 7) \o <<"-">> \o Slice(t, 8, 10)

\* [ (str2date(l.Date), getattr(l, attr)) for l in Ls if l.Name == name ]
RECURSIVE Points(_, _, _)
Points(L, name, a) ==
    IF L = <<>> THEN <<>>
    ELSE IF Head(L).Name = name
         THEN << <<str2date(Head(L).Date), Head(L)[a]>> >> \o Points(Tail(L), name, a)
         ELSE Points(Tail(L), name, a)

\* plt.plot(x, y, label=...)
Plot(t, label) ==
    [label |-> label,
     x |-> [k \in 1..Len(t) |-> t[k][1]],
     y |-> [k \in 1..Len(t) |-> t[k][2]]]

\* lines 159-167: the averages, the first TopCount of them in descending
\* order, one plot for each
TimelineAll(L, a) ==
    LET Cu == ComputeAverage(L)
    IN  IF Cu.exc # "none" THEN [exc |-> Cu.exc, plots |-> <<>>]
        ELSE LET Cs == Prefix(SortedReverse(Cu.val.entries, "item").val, TopCount)
             IN  [exc |-> "none",
                  plots |-> [k \in 1..Len(Cs) |-> Plot(Points(L, Cs[k].key, a), Cs[k].key)]]

PlotAttrs == {"ICU", "NewCases"}

TimelineAllCall ==
    /\ pc = "main"
    /\ \E a \in PlotAttrs :
        /\ attr' = a
        /\ LET r == TimelineAll(As, a)
           IN  /\ plotted' = r.plots
               /\ exc' = r.exc
    /\ pc' = "TimelineAll_done"
    /\ UNCHANGED <<x, ret, parseVars, As, n>>

\* lines 131-137
TimelinePlot(L, region, a) == <<Plot(Points(L, region, a), region)>>

TimelinePlotCall ==
    /\ pc = "main"
    /\ \E a \in PlotAttrs, region \in {<<"A">>, <<"L">>} :
        /\ attr' = a
        /\ plotted' = TimelinePlot(As, region, a)
    /\ pc' = "TimelinePlot_done"
    /\ UNCHANGED <<x, ret, exc, parseVars, As, n>>

\* the regions in order of first appearance, a new region taking the next name
RegionNames ==
    << <<"A">>, <<"B">>, <<"C">>, <<"D">>, <<"E">>, <<"F">>, <<"G">>, <<"H">>, <<"I">>, <<"J">> >>

AvgObs(name, new) == Obs(<<"6", "1">>, name, IntV(3), new, IntV(1), IntV(4), IntV(9))

\* An input of k observations as k numbers: 2 * (index of the region name)
\* + (new cases - 1), the regions numbered in order of first appearance.
LastRegion(q) ==
    IF q = <<>> THEN 0
    ELSE CHOOSE m \in {q[k] \div 2 : k \in 1..Len(q)} : \A k \in 1..Len(q) : q[k] \div 2 <= m

RECURSIVE CanonicalCodes(_)
CanonicalCodes(len) ==
    IF len = 0 THEN {<<>>}
    ELSE { Append(p[1], p[2]) :
             p \in { r \in CanonicalCodes(len - 1) \X (2..(2 * Len(RegionNames) + 1)) :
                       r[2] \div 2 <= LastRegion(r[1]) + 1 } }

\* k regions with one observation each
RECURSIVE WideCodes(_)
WideCodes(k) ==
    IF k = 0 THEN {<<>>}
    ELSE { Append(p[1], 2 * k + p[2]) : p \in WideCodes(k - 1) \X (0..1) }

\* the same, followed by one more observation of one of them
WiderCodes(k) == { Append(p[1], p[2]) : p \in WideCodes(k) \X (2..(2 * k + 1)) }

RegionSeq(q) == [k \in 1..Len(q) |-> AvgObs(RegionNames[q[k] \div 2], IntV((q[k] % 2) + 1))]

Stamp == <<"2", "0", "2", "0", "-", "0", "6", "-", "1", "5", "T", "1", "8", ":", "0", "0", ":", "0", "0">>

OddInputs ==
    { Obs(Stamp, <<"A">>, NaN, NaN, IntV(1), IntV(4), IntV(9)),
      Obs(Stamp, <<"A">>, IntV(0), IntV(0 - 3), IntV(1), IntV(4), IntV(9)),
      Obs(Stamp, <<"A">>, IntV(5), IntV(2), IntV(1), IntV(4), IntV(9)),
      Obs(Stamp, <<"A">>, IntV(8), IntV(4), IntV(1), IntV(4), IntV(9)),
      Obs(Stamp, <<"A">>, IntV(2), IntV(6), IntV(1), IntV(4), IntV(9)),
      Obs(Stamp, <<"B">>, IntV(7), IntV(7), IntV(1), IntV(4), IntV(9)) }

InitAvg ==
    /\ pc = "main"
    /\ \/ \E len \in 0..MaxAvgLen : \E q \in CanonicalCodes(len) : As = RegionSeq(q)
       \/ \E k \in 1..MaxRegions : \E q \in WideCodes(k) \cup WiderCodes(k) : As = RegionSeq(q)
       \/ As \in SeqsUpTo(OddInputs, MaxOddLen)
    /\ x = <<>>
    /\ Idle

NextAvg ==
    \/ ComputeAverageCall
    \/ TimelineAllCall

SpecAvg == InitAvg /\ [][NextAvg]_vars

----------------------------------------------------------------------------
(* The files: a header line and data rows of the regional CSV layout *)

RECURSIVE Join(_)
Join(fields) ==
    IF Len(fields) = 0 THEN <<>>
    ELSE IF Len(fields) = 1 THEN fields[1]
         ELSE fields[1] \o <<",">> \o Join(Tail(fields))

MkLine(fields) == Join(fields) \o <<"\n">>

Row17(date, name, icu, total, new, deaths, tests) ==
    << date, <<>>, <<>>, name, <<>>, <<>>, <<>>, icu, <<>>, <<>>, total,
       <<>>, new, <<>>, deaths, <<>>, tests >>

Header ==
    MkLine(Row17(<<"d">>, <<"r">>, <<"i">>, <<"t">>, <<"n">>, <<"m">>, <<"s">>))
GoodLine ==
    MkLine(Row17(<<"6", "1">>, <<"A">>, <<"1">>, <<"4">>, <<"2">>, <<"1">>, <<"9">>))
OddLine ==
    MkLine(Row17(<<"6", "2">>, <<"B">>, <<>>, <<"0">>, <<"-", "1">>, <<"x">>, <<"1", "x">>))
ShortLine ==
    MkLine(<< <<"6", "3">>, <<>>, <<>>, <<"A">>, <<>>, <<>>, <<>>, <<"1">> >>)

AlmostLine ==
    MkLine(<< <<"6", "4">>, <<>>, <<>>, <<"B">>, <<>>, <<>>, <<>>, <<"1">>, <<>>, <<>>,
              <<"4">>, <<>>, <<"2">>, <<>>, <<"1">>, <<>> >>)

DataLines == {GoodLine, OddLine, ShortLine, AlmostLine}

\* a file without data rows is empty or holds the header line only
FileTexts(rows) == IF rows = <<>> THEN {<<>>, <<Header>>} ELSE {<<Header>> \o rows}

\* the ways to lay the data rows out over k files, in order
RECURSIVE FileLists(_, _)
FileLists(rows, k) ==
    IF k = 0 THEN IF rows = <<>> THEN {<<>>} ELSE {}
    ELSE UNION { { <<f>> \o rest : f \in FileTexts(SubSeq(rows, 1, c)),
                                   rest \in FileLists(SubSeq(rows, c + 1, Len(rows)), k - 1) }
                 : c \in 0..Len(rows) }

InitParse ==
    /\ pc = "ParseFiles"
    /\ files \in UNION {FileLists(rows, k) : rows \in SeqsUpTo(DataLines, MaxLines), k \in 0..MaxFiles}
    /\ x = <<>>
    /\ As = <<>>
    /\ ret = None
    /\ exc = "none"
    /\ fileIdx = 0
    /\ Rs = <<>>
    /\ fh = NoHandle
    /\ Ls = <<>>
    /\ parseRet = <<>>
    /\ opened = {}
    /\ pinned = {}
    /\ n = 0
    /\ attr = ""
    /\ plotted = <<>>

\* the driver: ParseFiles, then the analysis functions on its result
NextParse ==
    \/ ParseFilesCall
    \/ ParseOpen
    \/ ParseLine
    \/ ParseReturn
    \/ ParseFilesExtend
    \/ ParseFilesReturn
    \/ Finalize
    \/ TopRegionCall
    \/ ComputeAverageCall
    \/ TimelineAllCall
    \/ TimelinePlotCall

SpecParse == InitParse /\ [][NextParse]_vars

----------------------------------------------------------------------------
(* What a text denotes, stated without reference to the scan above *)
Pow10(k) == CASE k = 0 -> 1 [] k = 1 -> 10 [] k = 2 -> 100 [] k = 3 -> 1000
              [] k = 4 -> 10000 [] k = 5 -> 100000 [] OTHER -> 1000000

\* optional blanks, optional sign, digits with single underscores between
\* them, optional blanks
IsIntegerText(s) ==
    \E a, b \in 1..Len(s) :
        /\ a <= b
        /\ \A k \in 1..(a - 1) : s[k] \in Space
        /\ \A k \in (b + 1)..Len(s) : s[k] \in Space
        /\ LET d == IF s[a] \in {"+", "-"} THEN a + 1 ELSE a
           IN  /\ d <= b
               /\ s[d] \in Digits
               /\ s[b] \in Digits
               /\ \A k \in d..b : s[k] \in Digits \cup {"_"}
               /\ \A k \in d..(b - 1) : ~(s[k] = "_" /\ s[k + 1] = "_")

RECURSIVE SumDigits(_, _)
SumDigits(s, P) ==
    IF P = {} THEN 0
    ELSE LET p == CHOOSE q \in P : TRUE
         IN  DigitVal(s[p]) * Pow10(Cardinality({q \in 1..Len(s) : q > p /\ s[q] \in Digits}))
             + SumDigits(s, P \ {p})

TextValue(s) ==
    LET m == SumDigits(s, {p \in 1..Len(s) : s[p] \in Digits})
    IN  IF \E p \in 1..Len(s) : s[p] = "-" THEN 0 - m ELSE m

\* C6: str2int never raises; it returns the value of every text that denotes
\* an integer and, for every other text, the sentinel, which is not an int.
CoercionTotal ==
    pc = "str2int_done" =>
        /\ exc = "none"
        /\ IsIntegerText(x) => ret = IntV(TextValue(x))
        /\ ~IsIntegerText(x) => (ret = NaN /\ ~IsInt(ret))

CoercionTotalWitness ==
    /\ pc = "str2int_done"
    /\ x = <<"-", "1", "9">>
    /\ ret = IntV(0 - 19)

----------------------------------------------------------------------------
(* Parsing: what Parse and ParseFiles return *)

Commas(line) == {k \in 1..Len(line) : line[k] = ","}
FieldCount(line) == Cardinality(Commas(line)) + 1

\* the c-th of the comma positions cs
NthComma(cs, c) == CHOOSE k \in cs : Cardinality({m \in cs : m < k}) = c - 1

NotNewline(ch) == ch # "\n"

\* the text of column c (from 0) of a line that has it, cs its comma positions
Field(line, cs, c) ==
    LET from == IF c = 0 THEN 1 ELSE NthComma(cs, c) + 1
        to == IF c = Cardinality(cs) THEN Len(line) ELSE NthComma(cs, c + 1) - 1
    IN  SelectSeq(SubSeq(line, from, to), NotNewline)

Denoted(t) == IF IsIntegerText(t) THEN IntV(TextValue(t)) ELSE NaN

\* the observation of a data row in the regional CSV layout
ObsOfLine(line) ==
    LET cs == Commas(line)
    IN  Obs(Field(line, cs, 0), Field(line, cs, 3), Denoted(Field(line, cs, 7)),
            Denoted(Field(line, cs, 12)), Denoted(Field(line, cs, 14)),
            Denoted(Field(line, cs, 10)), Denoted(Field(line, cs, 16)))

DataRows(f) == IF f = <<>> THEN 0 ELSE Len(f) - 1
IsShort(line) == FieldCount(line) < 17
HasShortRow(f) == \E j \in 2..Len(f) : IsShort(f[j])

RECURSIVE RowsBefore(_)
RowsBefore(f) == IF f <= 1 THEN 0 ELSE DataRows(files[f - 1]) + RowsBefore(f - 1)

AnalysisDone == {"TopRegion_done", "ComputeAverage_done", "TimelineAll_done", "TimelinePlot_done"}

\* C4: Parse of a file of a header line and k data rows returns k
\* observations, the j-th built from the j-th data row, none from the header.
ParseReturnsDataRows ==
    pc = "ParseFiles_extend" =>
        /\ Len(parseRet) = DataRows(files[fileIdx])
        /\ \A j \in 1..Len(parseRet) : parseRet[j] = ObsOfLine(files[fileIdx][j + 1])

ParseReturnsWitness ==
    /\ pc = "ParseFiles_extend"
    /\ files[fileIdx] = <<Header, OddLine, GoodLine>>
    /\ Len(parseRet) = 2
    /\ parseRet[1].Name = <<"B">>
    /\ parseRet[2].Name = <<"A">>

\* C3: ParseFiles returns the observations of the files in the order given,
\* each file's in row order, every row once for every file it is in: as many
\* as the files have data rows.
ParseFilesConcatenates ==
    pc = "main" =>
        /\ ret.type = "list"
        /\ Len(ret.items) = RowsBefore(Len(files) + 1)
        /\ \A f \in 1..Len(files) : \A j \in 1..DataRows(files[f]) :
              ret.items[RowsBefore(f) + j] = ObsOfLine(files[f][j + 1])

ParseFilesWitness ==
    /\ pc = "main"
    /\ files = << <<Header, GoodLine>>, <<Header, GoodLine, OddLine>> >>
    /\ Len(ret.items) = 3
    /\ ret.items[1] = ret.items[2]
    /\ ret.items[3].Name = <<"B">>

\* C7: a data row of fewer than 17 fields makes Parse of its file and
\* ParseFiles end in an IndexError with nothing returned; nothing else in a
\* row does.
ShortRowAborts ==
    /\ pc = "ParseFiles_extend" => ~HasShortRow(files[fileIdx])
    /\ pc \in {"main"} \cup AnalysisDone => \A f \in 1..Len(files) : ~HasShortRow(files[f])
    /\ pc = "ParseFiles_raised" =>
          /\ exc = "IndexError"
          /\ ret = None
          /\ As = <<>>
          /\ IsShort(files[fh.file][fh.pos])

ShortRowWitness ==
    /\ pc = "ParseFiles_raised"
    /\ files = << <<Header, OddLine>>, <<Header, GoodLine, ShortLine>> >>
    /\ exc = "IndexError"
    /\ ret = None
    /\ Len(Rs) = 1
    /\ Len(Ls) = 1

NumericAttrs == {"ICU", "NewCases", "Deaths", "TotalCases", "Tests"}

Constructed == {Ls, Rs, parseRet, As}

\* C5 as stated: every numeric field of every constructed observation is a
\* non-negative integer or the sentinel.
FieldsNonNegativeOrSentinel ==
    \A L \in Constructed : \A k \in 1..Len(L) : \A a \in NumericAttrs :
        L[k][a] = NaN \/ (IsInt(L[k][a]) /\ L[k][a].val >= 0)

FieldsDenoted ==
    /\ \A L \in Constructed : \A k \in 1..Len(L) : \A a \in NumericAttrs :
          L[k][a] = NaN \/ IsInt(L[k][a])
    /\ pc = "Parse_loop" =>
          \A j \in 1..Len(Ls) : Ls[j] = ObsOfLine(files[fh.file][j + 1])

ObservationsKept ==
    /\ pc \in {"main"} \cup AnalysisDone => As' = As
    /\ \A k \in 1..Len(Rs) : k <= Len(Rs') => Rs'[k] = Rs[k]
    /\ \A k \in 1..Len(Ls) : k <= Len(Ls') => Ls'[k] = Ls[k]

\* C5 amended: every numeric field of every constructed observation is the
\* integer its whole field text denotes, negative ones included, or the
\* sentinel, never the value of a part of the text; and no operation changes
\* an observation once it is constructed.
FieldsDenotedAndKept == []FieldsDenoted /\ [][ObservationsKept]_vars

FieldsWitness ==
    /\ pc = "TopRegion_done"
    /\ files = << <<Header, OddLine, GoodLine>> >>
    /\ Len(As) = 2
    /\ As[1].NewCases = IntV(0 - 1)
    /\ As[1].Tests = NaN
    /\ As[1].ICU = NaN
    /\ As[2].Tests = IntV(9)
    /\ exc = "ZeroDivisionError"

\* C9: the file Parse opens is closed by the end of the call, on return and
\* on an exception alike: outside Parse no handle is open.
HandleReleased == pc # "Parse_loop" => opened = {}

----------------------------------------------------------------------------
(* Ranking: what TopRegion returns *)

Min(a, b) == IF a < b THEN a ELSE b

\* deaths/totalCases of two observations with integer fields, as fractions
Above(o, q) ==
    LET sg == Sign(o.TotalCases.val) * Sign(q.TotalCases.val)
    IN  o.Deaths.val * q.TotalCases.val * sg > q.Deaths.val * o.TotalCases.val * sg

SameRatio(o, q) == o.Deaths.val * q.TotalCases.val = q.Deaths.val * o.TotalCases.val

\* the place of L[k] in the descending order that keeps equal ratios in input order
Place(L, k) ==
    1 + Cardinality({j \in 1..Len(L) : Above(L[j], L[k])})
      + Cardinality({j \in 1..(k - 1) : SameRatio(L[j], L[k])})

RankedPrefix(L, m, out) ==
    /\ Len(out) = Min(m, Len(L))
    /\ \A k \in 1..Len(L) : Place(L, k) <= Len(out) => out[Place(L, k)] = L[k]
    /\ \A j, k \in 1..Len(out) : j < k => ~Above(out[k], out[j])

IntegerRatios(L) ==
    \A k \in 1..Len(L) : IsInt(L[k].Deaths) /\ IsInt(L[k].TotalCases) /\ L[k].TotalCases.val # 0

\* C1 as stated: for every observation sequence and every count n, what
\* TopRegion returns has min(n, len) observations, in descending order of
\* deaths/totalCases, observations of equal ratio in input order.
TopRegionRanksAnyInput ==
    (pc = "TopRegion_done" /\ exc = "none") =>
        /\ Len(ret.items) = Min(n, Len(As))
        /\ \A j, k \in 1..Len(ret.items) :
              j < k => ~FloatLess(Ratio(ret.items[j]).val, Ratio(ret.items[k]).val)

\* C1 amended: for every observation sequence whose deaths and totalCases are
\* integers with totalCases nonzero, and every count n >= 0, TopRegion returns
\* min(n, len) observations, in descending order of deaths/totalCases,
\* observations of equal ratio in input order.
TopRegionRanksIntegerInput ==
    (pc = "TopRegion_done" /\ IntegerRatios(As)) =>
        /\ exc = "none"
        /\ ret.type = "list"
        /\ RankedPrefix(As, n, ret.items)

TopRegionRanksWitness ==
    /\ pc = "TopRegion_done"
    /\ n = 2
    /\ As = << RankObs(IntV(0), IntV(1)), RankObs(IntV(1), IntV(2)),
               RankObs(IntV(1), IntV(1)), RankObs(IntV(2), IntV(4)) >>
    /\ ret = ListV(<< RankObs(IntV(1), IntV(1)), RankObs(IntV(1), IntV(2)) >>)

HasZeroTotal(L) ==
    \E k \in 1..Len(L) : IsInt(L[k].TotalCases) /\ L[k].TotalCases.val = 0

\* C8 as stated: a sequence that contains an observation with totalCases = 0
\* makes TopRegion fail with a division-by-zero error, whatever its length
\* and n.
ZeroTotalAlwaysFails ==
    (pc = "TopRegion_done" /\ HasZeroTotal(As)) => exc = "ZeroDivisionError"

\* C8 amended: a sequence of at least two observations, all with integer
\* totalCases, that contains an observation with totalCases = 0 makes
\* TopRegion fail with a division-by-zero error and return nothing, whatever n.
ZeroTotalFailsFromTwo ==
    (/\ pc = "TopRegion_done"
     /\ HasZeroTotal(As)
     /\ Len(As) >= 2
     /\ \A k \in 1..Len(As) : IsInt(As[k].TotalCases)) =>
        (exc = "ZeroDivisionError" /\ ret = None)

ZeroTotalFailsWitness ==
    /\ pc = "TopRegion_done"
    /\ As = << RankObs(IntV(1), IntV(1)), RankObs(IntV(1), IntV(2)), RankObs(IntV(1), IntV(0)) >>
    /\ n = 1
    /\ exc = "ZeroDivisionError"

----------------------------------------------------------------------------
(* Averaging: what ComputeAverage returns *)

NamesOf(L) == {L[k].Name : k \in 1..Len(L)}
Group(L, name) == {k \in 1..Len(L) : L[k].Name = name}

RECURSIVE SumNewCases(_, _)
SumNewCases(L, K) ==
    IF K = {} THEN 0
    ELSE LET k == CHOOSE m \in K : TRUE
         IN  L[k].NewCases.val + SumNewCases(L, K \ {k})

Abs(v) == IF v < 0 THEN 0 - v ELSE v

\* h hundredths is a nearest two-decimal value to sum/count
NearestHundredth(h, sum, count) == 2 * Abs(100 * sum - h * count) <= count

\* C2: for integer new-case values, the keys of the mapping ComputeAverage
\* returns are the distinct region names, and the value of a region is the
\* mean of the new cases of its observations, rounded to two decimals.
AveragesAreGroupMeans ==
    (pc = "ComputeAverage_done" /\ \A k \in 1..Len(As) : IsInt(As[k].NewCases)) =>
        /\ exc = "none"
        /\ ret.type = "dict"
        /\ {ret.entries[e].key : e \in 1..Len(ret.entries)} = NamesOf(As)
        /\ Len(ret.entries) = Cardinality(NamesOf(As))
        /\ \A e \in 1..Len(ret.entries) :
              LET K == Group(As, ret.entries[e].key)
              IN  /\ ret.entries[e].val.type = "float"
                  /\ NearestHundredth(ret.entries[e].val.hundredths,
                                      SumNewCases(As, K), Cardinality(K))

AveragesWitness ==
    /\ pc = "ComputeAverage_done"
    /\ As = << AvgObs(<<"A">>, IntV(1)), AvgObs(<<"B">>, IntV(1)), AvgObs(<<"A">>, IntV(1)),
               AvgObs(<<"B">>, IntV(2)), AvgObs(<<"A">>, IntV(2)) >>
    /\ ret = DictV(<< [key |-> <<"A">>, val |-> FloatV(133)],
                      [key |-> <<"B">>, val |-> FloatV(150)] >>)

----------------------------------------------------------------------------
(* The top-5 timeline *)

\* the place of entry e among the averages: descending, equal averages in
\* the order of the mapping
PlaceOfEntry(Cu, e) ==
    1 + Cardinality({f \in 1..Len(Cu) : Cu[f].val.hundredths > Cu[e].val.hundredths})
      + Cardinality({f \in 1..(e - 1) : Cu[f].val.hundredths = Cu[e].val.hundredths})

FirstSeen(L, name) == CHOOSE k \in Group(L, name) : \A m \in Group(L, name) : k <= m

\* the series of a region: its observations in input order
SeriesOf(L, name, a, plot) ==
    LET K == Group(L, name)
    IN  /\ Len(plot.x) = Cardinality(K)
        /\ Len(plot.y) = Cardinality(K)
        /\ \A k \in K :
              LET r == Cardinality({m \in K : m <= k})
              IN  /\ plot.y[r] = L[k][a]
                  /\ plot.x[r] = str2date(L[k].Date)

\* C10: TimelineAll plots min(5, number of regions) series, those of the
\* regions of highest average in descending order of average, equal averages
\* in the order of the mapping, which is the order of first appearance in
\* the input; each series holds its region's observations in input order.
TimelineAllPlotsTopFive ==
    (pc = "TimelineAll_done" /\ exc = "none") =>
        LET Cu == ComputeAverage(As).val.entries
        IN  /\ Len(plotted) = Min(5, Cardinality(NamesOf(As)))
            /\ \A e, f \in 1..Len(Cu) :
                  e < f => FirstSeen(As, Cu[e].key) < FirstSeen(As, Cu[f].key)
            /\ \A e \in 1..Len(Cu) :
                  PlaceOfEntry(Cu, e) <= Len(plotted) =>
                      plotted[PlaceOfEntry(Cu, e)].label = Cu[e].key
            /\ \A j \in 1..Len(plotted) :
                  /\ plotted[j].label \in NamesOf(As)
                  /\ SeriesOf(As, plotted[j].label, attr, plotted[j])

TimelineAllWitness ==
    /\ pc = "TimelineAll_done"
    /\ exc = "none"
    /\ Cardinality(NamesOf(As)) = 6
    /\ Len(As) = 7
    /\ Len(plotted) = 5
    /\ [j \in 1..5 |-> plotted[j].label] = << <<"B">>, <<"D">>, <<"E">>, <<"A">>, <<"C">> >>
    /\ attr = "NewCases"
    /\ plotted[4].y = <<IntV(1), IntV(2)>>

====
